---------------------------- MODULE Spec2Model ----------------------------
(***************************************************************************)
(* update-chat-types: propagation of the @Types header of CHAT transcripts *)
(* from per-directory 0types.txt marker files (src/src/lib.rs).            *)
(*                                                                         *)
(* Text is modelled byte-wise over a small alphabet.  A "character" is one *)
(* of the tokens below; the multi-byte prefixes the code matches at the    *)
(* start of a line are single tokens:                                      *)
(*    "T"  the prefix  @Types:        "E"  the prefix  @End                *)
(*    "S"  the byte    *              "x"  any other byte                  *)
(*    "CR" carriage return            "LF" line feed                       *)
(* A file content is a sequence of characters, a line is a sequence of     *)
(* characters without "LF".                                                *)
(***************************************************************************)
EXTENDS Integers, Sequences, FiniteSets, TLC

\* ------------------------------------------------------------------------
\* Bounds of the model.
\* ------------------------------------------------------------------------

\* Longest transcript content, in characters, enumerated by the file-level
\* specifications.
MaxBytes == 4

\* Number of runs of update_types_in_place in a row.
MaxRuns == 2

\* ------------------------------------------------------------------------
\* Text: bytes, lines, the two regular expressions.
\* ------------------------------------------------------------------------

Chars == {"T", "E", "S", "x", "CR", "LF"}

\* The content of a path at which there is no file (no content holds it).
NoFile == <<"NoFile">>

\* All contents of at most n characters.
Contents(n) == UNION {[1..k -> Chars] : k \in 0..n}

\* Index of the first "LF" of b at or after i, 0 when there is none.
RECURSIVE FindLF(_, _)
FindLF(b, i) ==
    IF i > Len(b) THEN 0
    ELSE IF b[i] = "LF" THEN i
    ELSE FindLF(b, i + 1)

\* What BufRead::lines does to one line read up to and including its "LF":
\* the "LF" is dropped and then one "CR" before it, if any.
StripCR(l) ==
    IF Len(l) > 0 /\ l[Len(l)] = "CR" THEN SubSeq(l, 1, Len(l) - 1) ELSE l

\* BufReader::lines(): the lines of b from index i on.  A last line without
\* "LF" is yielded as it is (its "CR" kept); nothing is yielded at the end.
RECURSIVE LinesFrom(_, _)
LinesFrom(b, i) ==
    IF i > Len(b) THEN <<>>
    ELSE LET j == FindLF(b, i)
         IN  IF j = 0
             THEN <<SubSeq(b, i, Len(b))>>
             ELSE <<StripCR(SubSeq(b, i, j - 1))>> \o LinesFrom(b, j + 1)

Lines(b) == LinesFrom(b, 1)

\* writeln!(w, "{}", line): the line and one "LF".
Writeln(line) == line \o <<"LF">>

\* (?m)^ : the positions of b at which a line starts.
LineStart(b, p) == p = 1 \/ b[p - 1] = "LF"

\* End of the run of non-"LF" characters of b that starts at p.
RECURSIVE RunEnd(_, _)
RunEnd(b, p) ==
    IF p < Len(b) /\ b[p + 1] # "LF" THEN RunEnd(b, p + 1) ELSE p

\* TYPES_REGEX = (?m)^@Types:.+$ : the start of the leftmost match in b, 0
\* when there is none.  "." is any character but "LF" and ".+" needs one.
TypesRegexStarts(b) ==
    {p \in 1..Len(b) : /\ LineStart(b, p)
                       /\ b[p] = "T"
                       /\ p < Len(b)
                       /\ b[p + 1] # "LF"}

Min(S) == CHOOSE m \in S : \A n \in S : m <= n

TYPES_REGEX_find(b) ==
    IF TypesRegexStarts(b) = {} THEN 0 ELSE Min(TypesRegexStarts(b))

\* The text of the match of TYPES_REGEX that starts at p: ".+" is greedy and
\* "$" holds before an "LF" and at the end.
TYPES_REGEX_match(b, p) == SubSeq(b, p, RunEnd(b, p))

\* ------------------------------------------------------------------------
\* The line classification shared by get_types_fast and updated_prefix:
\* the match on line.as_bytes().
\* ------------------------------------------------------------------------

MatchLine(line) ==
    IF Len(line) > 0 /\ line[1] \in {"E", "S"} THEN "end"
    ELSE IF Len(line) > 0 /\ line[1] = "T" THEN "types"
    ELSE "other"

\* ------------------------------------------------------------------------
\* updated_prefix(lines, new_types, w).
\* ------------------------------------------------------------------------

\* MatchArm with the triggering line not written after the new header.
MatchArm_DropsTriggerLine(line, new_types, sink, w) ==
    CASE MatchLine(line) = "end" ->
           [updated |-> TRUE,
            w |-> IF sink THEN w \o Writeln(new_types) ELSE w,
            stop |-> TRUE]
      [] MatchLine(line) = "types" ->
           IF line # new_types
           THEN [updated |-> TRUE,
                 w |-> IF sink THEN w \o Writeln(new_types) ELSE w,
                 stop |-> TRUE]
           ELSE [updated |-> FALSE,
                 w |-> IF sink THEN w \o Writeln(line) ELSE w,
                 stop |-> TRUE]
      [] OTHER ->
           [updated |-> FALSE,
            w |-> IF sink THEN w \o Writeln(line) ELSE w,
            stop |-> FALSE]

\* MatchArm without the break at a header equal to new_types.
MatchArm_NoBreakOnSameHeader(line, new_types, sink, w) ==
    CASE MatchLine(line) = "end" ->
           [updated |-> TRUE,
            w |-> IF sink THEN w \o Writeln(new_types) \o Writeln(line) ELSE w,
            stop |-> TRUE]
      [] MatchLine(line) = "types" /\ line # new_types ->
           [updated |-> TRUE,
            w |-> IF sink THEN w \o Writeln(new_types) ELSE w,
            stop |-> TRUE]
      [] OTHER ->
           [updated |-> FALSE,
            w |-> IF sink THEN w \o Writeln(line) ELSE w,
            stop |-> FALSE]

\* MatchArm that reports an update at every header, equal or not.
MatchArm_UpdatesSameHeader(line, new_types, sink, w) ==
    CASE MatchLine(line) = "end" ->
           [updated |-> TRUE,
            w |-> IF sink THEN w \o Writeln(new_types) \o Writeln(line) ELSE w,
            stop |-> TRUE]
      [] MatchLine(line) = "types" ->
           [updated |-> TRUE,
            w |-> IF sink THEN w \o Writeln(new_types) ELSE w,
            stop |-> TRUE]
      [] OTHER ->
           [updated |-> FALSE,
            w |-> IF sink THEN w \o Writeln(line) ELSE w,
            stop |-> FALSE]

\* One round of the loop: the arm of the match taken for `line`.  sink is
\* whether w is Some, w what was written so far; stop is the arm's break.
MatchArm(line, new_types, sink, w) ==
    CASE MatchLine(line) = "end" ->
           [updated |-> TRUE,
            w |-> IF sink THEN w \o Writeln(new_types) \o Writeln(line) ELSE w,
            stop |-> TRUE]
      [] MatchLine(line) = "types" ->
           IF line # new_types
           THEN [updated |-> TRUE,
                 w |-> IF sink THEN w \o Writeln(new_types) ELSE w,
                 stop |-> TRUE]
           ELSE [updated |-> FALSE,
                 w |-> IF sink THEN w \o Writeln(line) ELSE w,
                 stop |-> TRUE]
      [] OTHER ->
           [updated |-> FALSE,
            w |-> IF sink THEN w \o Writeln(line) ELSE w,
            stop |-> FALSE]

\* The loop over lines.next(), i - 1 lines already taken.  The result is
\* the returned flag, the bytes written to the sink and the number of
\* lines taken from the iterator.
RECURSIVE updated_prefix(_, _, _, _, _)
updated_prefix(lines, i, new_types, sink, w) ==
    IF i > Len(lines)
    THEN [updated |-> FALSE, w |-> w, taken |-> Len(lines)]
    ELSE LET arm == MatchArm(lines[i], new_types, sink, w)
         IN  IF arm.stop
             THEN [updated |-> arm.updated, w |-> arm.w, taken |-> i]
             ELSE updated_prefix(lines, i + 1, new_types, sink, arm.w)

\* ------------------------------------------------------------------------
\* The directory tree and the file system.  A path is the sequence of its
\* components; the tree is the one of the repository's test (test-dir with
\* a, b, b/c, b/d) and a .git directory.
\* ------------------------------------------------------------------------

Root == <<"r">>

DirA == <<"r", "a">>
DirB == <<"r", "b">>
DirC == <<"r", "b", "c">>
DirD == <<"r", "b", "d">>
DirGit == <<"r", ".git">>

Dirs == {Root, DirA, DirB, DirC, DirD, DirGit}

\* Path::parent, Path::file_name, Path::join.
Parent(p) == SubSeq(p, 1, Len(p) - 1)
FileName(p) == p[Len(p)]
Join(d, name) == d \o <<name>>

MarkerFiles == {Join(d, "0types.txt") : d \in Dirs}

\* The files that may exist beside the markers: two transcripts, a second
\* name in b/d (the destination of an out-of-place update), a transcript
\* under .git and a file that is no transcript.
ChaA == Join(DirA, "t.cha")
ChaD == Join(DirD, "t.cha")
ChaD2 == Join(DirD, "u.cha")
ChaGit == Join(DirGit, "t.cha")
TxtD == Join(DirD, "notes.txt")

AllFiles == MarkerFiles \cup {ChaA, ChaD, ChaD2, ChaGit, TxtD}

\* path.extension() == Some("cha")
IsChat(p) == FileName(p) \in {"t.cha", "u.cha"}

\* Entries that are symbolic links.
Symlinks == {Join(DirA, "link.cha")}

\* Option<PathBuf>: None, and Some(d) as d itself (no path is empty).
None == <<>>

VARIABLES
    tree,       \* the directories that exist (Root and a prefix-closed set)
    fs,         \* file system: AllFiles -> content, or NoFile
    tmp,        \* the NamedTempFile: its content, or NoFile
    out,        \* the bytes written to the `out` of update_types_to_output
    call,       \* arguments of the running file-level call
    fpc,        \* where the file-level call stands
    strings,    \* the lines of the iterator `strings`
    taken,      \* how many of them were taken with next()
    prefix,     \* the buffer `prefix` (`w`)
    updated,    \* the local `updated`
    ret,        \* value returned by the file-level call, once returned
    old,        \* the file system when the file-level call started (history)
    res,        \* results of get_types_* and replace_types_*
    args,       \* arguments of update_types_in_place
    pc,         \* where update_types_in_place stands
    wstack,     \* WalkDir: the open directories and their entries to come
    types_dirs, \* the HashSet types_dirs
    types_map,  \* the HashMap types_map
    types_info, \* the HashMap types_info
    num_updated,\* the counter num_updated
    run,        \* number of the running call of update_types_in_place
    hist        \* file systems at the start and at the end of each run (history)

\* State of one file-level call, of the tree-level run, of the comparisons.
fvars == <<fs, tmp, out, call, fpc, strings, taken, prefix, updated, ret, old>>
tvars == <<tree, args, pc, wstack, types_dirs, types_map, types_info,
           num_updated, run, hist>>
vars == <<fvars, tvars, res>>

\* ------------------------------------------------------------------------
\* update_types_to_new_path(path, new_path, new_types, dry_run), by step.
\* The process may stop for good in any state (the specifications state no
\* fairness): what holds in every reachable state holds when it crashes.
\* ------------------------------------------------------------------------

\* File::open, BufReader::new, lines(): the iterator over the lines of path.
NewPathOpen ==
    /\ fpc = "open"
    /\ call.fn = "update_types_to_new_path"
    /\ fs[call.path] # NoFile
    /\ strings' = Lines(fs[call.path])
    /\ taken' = 0
    /\ fpc' = "scan"
    /\ UNCHANGED <<fs, tmp, out, call, prefix, updated, ret, old, tvars, res>>

\* NewPathScan that does not look at dry_run.
NewPathScan_IgnoresDryRun ==
    /\ fpc = "scan"
    /\ LET r == updated_prefix(strings, 1, call.new_types, TRUE, <<>>)
       IN  /\ updated' = r.updated
           /\ prefix' = r.w
           /\ taken' = r.taken
           /\ fpc' = IF r.updated THEN "temp" ELSE "return"
    /\ UNCHANGED <<fs, tmp, out, call, strings, ret, old, tvars, res>>

\* The call of updated_prefix: without a sink under dry_run, with the
\* buffer `prefix` otherwise.
NewPathScan ==
    /\ fpc = "scan"
    /\ LET r == updated_prefix(strings, 1, call.new_types, ~call.dry_run, <<>>)
       IN  /\ updated' = r.updated
           /\ prefix' = r.w
           /\ taken' = r.taken
           /\ fpc' = IF ~call.dry_run /\ r.updated THEN "temp" ELSE "return"
    /\ UNCHANGED <<fs, tmp, out, call, strings, ret, old, tvars, res>>

\* NewPathTemp that creates the file at new_path and writes to it.
NewPathTemp_InPlace ==
    /\ fpc = "temp"
    /\ fs' = [fs EXCEPT ![call.new_path] = prefix]
    /\ tmp' = prefix
    /\ fpc' = "copy"
    /\ UNCHANGED <<out, call, strings, taken, prefix, updated, ret, old, tvars, res>>

\* NamedTempFile::new() and write_all(&prefix).
NewPathTemp ==
    /\ fpc = "temp"
    /\ tmp' = prefix
    /\ fpc' = "copy"
    /\ UNCHANGED <<fs, out, call, strings, taken, prefix, updated, ret, old, tvars, res>>

\* One round of the loop that copies the rest of the lines.
NewPathCopy ==
    /\ fpc = "copy"
    /\ taken < Len(strings)
    /\ tmp' = tmp \o Writeln(strings[taken + 1])
    /\ taken' = taken + 1
    /\ UNCHANGED <<fs, out, call, fpc, strings, prefix, updated, ret, old, tvars, res>>

\* named_temp_file.persist(new_path): the rename of the temporary file.
NewPathPersist ==
    /\ fpc = "copy"
    /\ taken = Len(strings)
    /\ fs' = [fs EXCEPT ![call.new_path] = tmp]
    /\ tmp' = NoFile
    /\ fpc' = "return"
    /\ UNCHANGED <<out, call, strings, taken, prefix, updated, ret, old, tvars, res>>

\* persist() fails (the temporary file is made in the system's temporary
\* directory, a rename across file systems is refused): unwrap() panics and
\* the temporary file is removed when it is dropped.
NewPathPersistFail ==
    /\ fpc = "copy"
    /\ taken = Len(strings)
    /\ tmp' = NoFile
    /\ fpc' = "panicked"
    /\ UNCHANGED <<fs, out, call, strings, taken, prefix, updated, ret, old, tvars, res>>

NewPathReturn ==
    /\ fpc = "return"
    /\ ret' = updated
    /\ fpc' = "returned"
    /\ UNCHANGED <<fs, tmp, out, call, strings, taken, prefix, updated, old, tvars, res>>

\* ------------------------------------------------------------------------
\* update_types_to_output(path, new_types, out, dry_run), as a whole.
\* ------------------------------------------------------------------------

\* The rest of the lines, each written with writeln!.
RECURSIVE WriteLines(_, _)
WriteLines(lines, i) ==
    IF i > Len(lines) THEN <<>>
    ELSE Writeln(lines[i]) \o WriteLines(lines, i + 1)

update_types_to_output ==
    /\ fpc = "open"
    /\ call.fn = "update_types_to_output"
    /\ fs[call.path] # NoFile
    /\ LET lines == Lines(fs[call.path])
           r == updated_prefix(lines, 1, call.new_types, TRUE, <<>>)
       IN  /\ strings' = lines
           /\ prefix' = r.w
           /\ updated' = r.updated
           /\ taken' = IF ~call.dry_run /\ r.updated THEN Len(lines) ELSE r.taken
           /\ out' = IF ~call.dry_run /\ r.updated
                     THEN out \o r.w \o WriteLines(lines, r.taken + 1)
                     ELSE out
           /\ ret' = r.updated
    /\ fpc' = "returned"
    /\ UNCHANGED <<fs, tmp, call, old, tvars, res>>

\* ------------------------------------------------------------------------
\* get_types_slurp, get_types_fast, replace_types_slurp, replace_types_fast
\* on the content b of the file at `path`.  Option<String> is a record.
\* ------------------------------------------------------------------------

NoLine == [some |-> FALSE, val |-> <<>>]
SomeLine(l) == [some |-> TRUE, val |-> l]

\* read_to_string and TYPES_REGEX.find(&contents).map(|m| m.as_str()).
get_types_slurp(b) ==
    LET p == TYPES_REGEX_find(b)
    IN  IF p = 0 THEN NoLine ELSE SomeLine(TYPES_REGEX_match(b, p))

\* The loop of get_types_fast over buf_read.lines(), from line i on.
RECURSIVE get_types_fast_loop(_, _)
get_types_fast_loop(lines, i) ==
    IF i > Len(lines) THEN NoLine
    ELSE CASE MatchLine(lines[i]) = "end" -> NoLine
           [] MatchLine(lines[i]) = "types" -> SomeLine(lines[i])
           [] OTHER -> get_types_fast_loop(lines, i + 1)

get_types_fast(b) == get_types_fast_loop(Lines(b), 1)

\* replace_types_slurp: true when the match of TYPES_REGEX differs from
\* new_types, false when it equals it, and true whenever there is no match
\* (the result of the splice with SPLICE_REGEX is not looked at).
replace_types_slurp(b, new_types) ==
    LET p == TYPES_REGEX_find(b)
    IN  IF p # 0 THEN TYPES_REGEX_match(b, p) # new_types ELSE TRUE

\* replace_types_fast: updated_prefix with a Vec as its sink.
replace_types_fast(b, new_types) ==
    updated_prefix(Lines(b), 1, new_types, TRUE, <<>>).updated

NoResults ==
    [get_types_slurp |-> [called |-> FALSE, value |-> NoLine],
     get_types_fast |-> [called |-> FALSE, value |-> NoLine],
     replace_types_slurp |-> [called |-> FALSE, value |-> FALSE],
     replace_types_fast |-> [called |-> FALSE, value |-> FALSE]]

CallGetTypesSlurp ==
    /\ fpc = "compare"
    /\ ~res.get_types_slurp.called
    /\ res' = [res EXCEPT !.get_types_slurp =
                 [called |-> TRUE, value |-> get_types_slurp(fs[call.path])]]
    /\ UNCHANGED <<fvars, tvars>>

CallGetTypesFast ==
    /\ fpc = "compare"
    /\ ~res.get_types_fast.called
    /\ res' = [res EXCEPT !.get_types_fast =
                 [called |-> TRUE, value |-> get_types_fast(fs[call.path])]]
    /\ UNCHANGED <<fvars, tvars>>

CallReplaceTypesSlurp ==
    /\ fpc = "compare"
    /\ ~res.replace_types_slurp.called
    /\ res' = [res EXCEPT !.replace_types_slurp =
                 [called |-> TRUE,
                  value |-> replace_types_slurp(fs[call.path], call.new_types)]]
    /\ UNCHANGED <<fvars, tvars>>

CallReplaceTypesFast ==
    /\ fpc = "compare"
    /\ ~res.replace_types_fast.called
    /\ res' = [res EXCEPT !.replace_types_fast =
                 [called |-> TRUE,
                  value |-> replace_types_fast(fs[call.path], call.new_types)]]
    /\ UNCHANGED <<fvars, tvars>>

\* ------------------------------------------------------------------------
\* State of update_types_in_place while it is not running.
\* ------------------------------------------------------------------------

NoMap == [d \in {} |-> None]

TreeIdle ==
    /\ tree = Dirs
    /\ args = [base_path |-> Root, dry_run |-> FALSE]
    /\ pc = "none"
    /\ wstack = <<>>
    /\ types_dirs = {}
    /\ types_map = NoMap
    /\ types_info = NoMap
    /\ num_updated = 0
    /\ run = 0
    /\ hist = <<>>

\* ------------------------------------------------------------------------
\* Specification of one file-level call on every small input.
\* ------------------------------------------------------------------------

\* The header texts a call is given.
NewTypesChoices == {<<"T">>, <<"T", "x">>}

InitFile ==
    /\ \E c \in Contents(MaxBytes), o \in {NoFile, <<"x", "LF">>} :
         fs = [f \in AllFiles |->
                 IF f = ChaD THEN c ELSE IF f = ChaD2 THEN o ELSE NoFile]
    /\ \E fn \in {"update_types_to_new_path", "update_types_to_output"},
          np \in {ChaD, ChaD2}, nt \in NewTypesChoices, dr \in BOOLEAN :
         call = [fn |-> fn, path |-> ChaD, new_path |-> np,
                 new_types |-> nt, dry_run |-> dr]
    /\ tmp = NoFile
    /\ out = <<>>
    /\ fpc = "open"
    /\ strings = <<>>
    /\ taken = 0
    /\ prefix = <<>>
    /\ updated = FALSE
    /\ ret = FALSE
    /\ old = fs
    /\ res = NoResults
    /\ TreeIdle

NextFile ==
    \/ NewPathOpen
    \/ NewPathScan
    \/ NewPathTemp
    \/ NewPathCopy
    \/ NewPathPersist
    \/ NewPathPersistFail
    \/ NewPathReturn
    \/ update_types_to_output

SpecFile == InitFile /\ [][NextFile]_vars

\* ------------------------------------------------------------------------
\* Specification of the four functions of the benchmark on every small
\* file content.
\* ------------------------------------------------------------------------

InitEquiv ==
    /\ \E c \in Contents(MaxBytes) :
         fs = [f \in AllFiles |-> IF f = ChaD THEN c ELSE NoFile]
    /\ \E nt \in NewTypesChoices :
         call = [fn |-> "compare", path |-> ChaD, new_path |-> ChaD,
                 new_types |-> nt, dry_run |-> TRUE]
    /\ tmp = NoFile
    /\ out = <<>>
    /\ fpc = "compare"
    /\ strings = <<>>
    /\ taken = 0
    /\ prefix = <<>>
    /\ updated = FALSE
    /\ ret = FALSE
    /\ old = fs
    /\ res = NoResults
    /\ TreeIdle

NextEquiv ==
    \/ CallGetTypesSlurp
    \/ CallGetTypesFast
    \/ CallReplaceTypesSlurp
    \/ CallReplaceTypesFast

SpecEquiv == InitEquiv /\ [][NextEquiv]_vars

\* ------------------------------------------------------------------------
\* WalkDir::new(path).into_iter().filter_entry(..): a depth-first walk that
\* yields a directory before its entries and the entries of one directory
\* in the order the operating system lists them, which is any order.
\* ------------------------------------------------------------------------

Kind(e) ==
    IF e \in Dirs THEN "dir" ELSE IF e \in Symlinks THEN "symlink" ELSE "file"

\* The entries of directory d.
Entries(d) ==
    {c \in tree : Parent(c) = d}
      \cup {f \in AllFiles : Parent(f) = d /\ fs[f] # NoFile}
      \cup {l \in Symlinks : Parent(l) = d}

\* filter_entry(|e| e.file_name() != ".git"): the entries the walk yields.
Kept(e) == FileName(e) # ".git"

\* The frame of a directory the walk has just yielded and opens.
Frame(d) == [dir |-> d, rest |-> {e \in Entries(d) : Kept(e)}]

\* Directories whose entries are all yielded are closed.
RECURSIVE Settle(_)
Settle(stack) ==
    IF stack # <<>> /\ stack[Len(stack)].rest = {}
    THEN Settle(SubSeq(stack, 1, Len(stack) - 1))
    ELSE stack

\* The walk after it has yielded the root.
WalkRoot(root) == Settle(<<Frame(root)>>)

\* The entries the walk may yield next.
WalkNext(stack) == IF stack = <<>> THEN {} ELSE stack[Len(stack)].rest

\* The walk after it has yielded e: a directory is opened at once.
WalkYield(stack, e) ==
    LET n == Len(stack)
        popped == [stack EXCEPT ![n].rest = @ \ {e}]
    IN  Settle(IF Kind(e) = "dir" THEN Append(popped, Frame(e)) ELSE popped)

\* ------------------------------------------------------------------------
\* collect_chat_types(path), one entry of the walk at a time.
\* ------------------------------------------------------------------------

\* HashMap::insert.
Insert(map, k, v) ==
    [x \in DOMAIN map \cup {k} |-> IF x = k THEN v ELSE map[x]]

\* The body of the loop for one entry: the new types_dirs and types_map.
CollectEntry(dirs, map, e, path) ==
    IF Kind(e) = "dir"
    THEN [dirs |-> dirs,
          map |-> IF e = path THEN Insert(map, e, None)
                  ELSE Insert(map, e, map[Parent(e)])]
    ELSE IF Kind(e) = "file" /\ FileName(e) = "0types.txt"
    THEN [dirs |-> dirs \cup {Parent(e)},
          map |-> Insert(map, Parent(e), Parent(e))]
    ELSE [dirs |-> dirs, map |-> map]

\* The first entry of the walk is the root.
CollectRoot ==
    /\ pc = "collect"
    /\ wstack = <<>>
    /\ types_map = NoMap
    /\ LET c == CollectEntry(types_dirs, types_map, args.base_path, args.base_path)
           w == WalkRoot(args.base_path)
       IN  /\ types_dirs' = c.dirs
           /\ types_map' = c.map
           /\ wstack' = w
           /\ pc' = IF w = <<>> THEN "read_types" ELSE "collect"
    /\ UNCHANGED <<fvars, res, tree, args, types_info, num_updated, run, hist>>

CollectVisit ==
    /\ pc = "collect"
    /\ \E e \in WalkNext(wstack) :
         LET c == CollectEntry(types_dirs, types_map, e, args.base_path)
             w == WalkYield(wstack, e)
         IN  /\ types_dirs' = c.dirs
             /\ types_map' = c.map
             /\ wstack' = w
             /\ pc' = IF w = <<>> THEN "read_types" ELSE "collect"
    /\ UNCHANGED <<fvars, res, tree, args, types_info, num_updated, run, hist>>

\* ------------------------------------------------------------------------
\* read_types_file(path) on the content b of the file.
\* ------------------------------------------------------------------------

Panic == <<"panic">>

\* read_types_file that returns the first line as it is.
read_types_file_Unchecked(b) ==
    LET lines == Lines(b)
    IN  IF lines # <<>> THEN lines[1] ELSE <<>>

read_types_file(b) ==
    LET lines == Lines(b)
    IN  IF lines # <<>>
        THEN IF lines[1] # <<>> /\ lines[1][1] = "T" THEN lines[1] ELSE Panic
        ELSE Panic

\* ------------------------------------------------------------------------
\* update_types_in_place(base_path, dry_run) after collect_chat_types.
\* ------------------------------------------------------------------------

\* "Parse all the @Types files": types_info is built, every marker of
\* types_dirs being read, and the second walk yields the root.
ReadTypes ==
    /\ pc = "read_types"
    /\ LET info == [d \in types_dirs |->
                      read_types_file(fs[Join(d, "0types.txt")])]
           w == WalkRoot(args.base_path)
       IN  IF \E d \in types_dirs : info[d] = Panic
           THEN /\ pc' = "panicked"
                /\ UNCHANGED <<types_info, wstack>>
           ELSE /\ types_info' = info
                /\ wstack' = w
                /\ pc' = IF w = <<>> THEN "done" ELSE "walk"
    /\ UNCHANGED <<fvars, res, tree, args, types_dirs, types_map, num_updated,
                   run, hist>>

\* An entry of the second walk that is no CHAT file, or a CHAT file whose
\* directory maps to None.
UpdateSkip ==
    /\ pc = "walk"
    /\ \E e \in WalkNext(wstack) :
         /\ ~(Kind(e) = "file" /\ IsChat(e) /\ types_map[Parent(e)] # None)
         /\ wstack' = WalkYield(wstack, e)
         /\ pc' = IF WalkYield(wstack, e) = <<>> THEN "done" ELSE "walk"
    /\ UNCHANGED <<fvars, res, tree, args, types_dirs, types_map, types_info,
                   num_updated, run, hist>>

\* UpdateCall with the header of the outermost marker directory in place of
\* the one the map names.
UpdateCall_OutermostMarker ==
    /\ pc = "walk"
    /\ \E e \in WalkNext(wstack) :
         /\ Kind(e) = "file" /\ IsChat(e) /\ types_map[Parent(e)] # None
         /\ wstack' = WalkYield(wstack, e)
         /\ call' = [fn |-> "update_types_to_new_path", path |-> e,
                     new_path |-> e,
                     new_types |->
                       types_info[CHOOSE d \in types_dirs :
                                    \A d2 \in types_dirs : Len(d) <= Len(d2)],
                     dry_run |-> args.dry_run]
    /\ fpc' = "open"
    /\ old' = fs
    /\ pc' = "update"
    /\ UNCHANGED <<fs, tmp, out, strings, taken, prefix, updated, ret, res,
                   tree, args, types_dirs, types_map, types_info, num_updated,
                   run, hist>>

\* A CHAT file whose directory maps to Some(types_dir): the call of
\* update_types_to_new_path(path_str, path_str, new_types, dry_run).
UpdateCall ==
    /\ pc = "walk"
    /\ \E e \in WalkNext(wstack) :
         /\ Kind(e) = "file" /\ IsChat(e) /\ types_map[Parent(e)] # None
         /\ wstack' = WalkYield(wstack, e)
         /\ call' = [fn |-> "update_types_to_new_path", path |-> e,
                     new_path |-> e,
                     new_types |-> types_info[types_map[Parent(e)]],
                     dry_run |-> args.dry_run]
    /\ fpc' = "open"
    /\ old' = fs
    /\ pc' = "update"
    /\ UNCHANGED <<fs, tmp, out, strings, taken, prefix, updated, ret, res,
                   tree, args, types_dirs, types_map, types_info, num_updated,
                   run, hist>>

\* The call has returned: num_updated counts it, the walk goes on or ends.
UpdateReturn ==
    /\ pc = "update"
    /\ fpc = "returned"
    /\ num_updated' = IF ret THEN num_updated + 1 ELSE num_updated
    /\ fpc' = "idle"
    /\ pc' = IF wstack = <<>> THEN "done" ELSE "walk"
    /\ UNCHANGED <<fs, tmp, out, call, strings, taken, prefix, updated, ret,
                   old, res, tree, args, wstack, types_dirs, types_map,
                   types_info, run, hist>>

\* ------------------------------------------------------------------------
\* Specification of collect_chat_types on every tree and every set of
\* marker files.
\* ------------------------------------------------------------------------

\* The directory trees: Root and any set of the directories closed under
\* Parent.
Trees == {t \in SUBSET Dirs : Root \in t /\ \A d \in t \ {Root} : Parent(d) \in t}

\* Contents of marker files: headers @Types: and @Types:x (a second line is
\* not read), a header that ends in a carriage return before its CR LF, a
\* first line that is no header, an empty file.
MarkerT == <<"T", "LF">>
MarkerTx == <<"T", "x", "LF", "S", "LF">>
MarkerCR == <<"T", "x", "CR", "CR", "LF">>
MarkerBad == <<"x", "LF", "T", "LF">>
MarkerEmpty == <<>>

FileIdle ==
    /\ tmp = NoFile
    /\ out = <<>>
    /\ call = [fn |-> "none", path |-> ChaD, new_path |-> ChaD,
               new_types |-> <<>>, dry_run |-> FALSE]
    /\ fpc = "idle"
    /\ strings = <<>>
    /\ taken = 0
    /\ prefix = <<>>
    /\ updated = FALSE
    /\ ret = FALSE
    /\ old = fs
    /\ res = NoResults

TreeStart ==
    /\ pc = "collect"
    /\ wstack = <<>>
    /\ types_dirs = {}
    /\ types_map = NoMap
    /\ types_info = NoMap
    /\ num_updated = 0
    /\ run = 1
    /\ hist = <<fs>>

InitCollect ==
    /\ tree \in Trees
    /\ \E m \in SUBSET tree :
         fs = [f \in AllFiles |->
                 IF f \in MarkerFiles /\ Parent(f) \in m THEN MarkerT
                 ELSE IF f = ChaD /\ DirD \in tree THEN <<"S", "LF">>
                 ELSE NoFile]
    /\ args = [base_path |-> Root, dry_run |-> TRUE]
    /\ FileIdle
    /\ TreeStart

NextCollect ==
    \/ CollectRoot
    \/ CollectVisit

SpecCollect == InitCollect /\ [][NextCollect]_vars

\* ------------------------------------------------------------------------
\* Specification of update_types_in_place, run MaxRuns times in a row on
\* the tree of the test with marker files and transcripts of several
\* shapes.
\* ------------------------------------------------------------------------

\* The program is started again on the tree as the run before left it.
NextRun ==
    /\ pc = "done"
    /\ run < MaxRuns
    /\ run' = run + 1
    /\ hist' = Append(hist, fs)
    /\ pc' = "collect"
    /\ wstack' = <<>>
    /\ types_dirs' = {}
    /\ types_map' = NoMap
    /\ types_info' = NoMap
    /\ num_updated' = 0
    /\ UNCHANGED <<fvars, res, tree, args>>

\* Contents of the transcript b/d/t.cha: no trigger line; an utterance and
\* no header; intro, header, utterance; two header lines; a header after an
\* utterance; a header that ends in CR LF before a last line without LF.
TranscriptChoices ==
    { <<"x", "LF">>,
      <<"S", "LF">>,
      <<"x", "LF", "T", "LF", "S", "LF">>,
      <<"T", "x", "LF", "T", "LF">>,
      <<"S", "LF", "T", "x", "LF">>,
      <<"T", "x", "CR", "LF", "E">> }

InitTree ==
    /\ tree = Dirs
    /\ \E mr \in {NoFile, MarkerT},
          ma \in {NoFile, MarkerBad, MarkerEmpty},
          mb \in {NoFile, MarkerTx, MarkerCR},
          md \in {NoFile, MarkerT},
          td \in TranscriptChoices,
          ta \in {NoFile, <<"S", "LF">>} :
         fs = [f \in AllFiles |->
                 CASE f = Join(Root, "0types.txt") -> mr
                   [] f = Join(DirA, "0types.txt") -> ma
                   [] f = Join(DirB, "0types.txt") -> mb
                   [] f = Join(DirD, "0types.txt") -> md
                   [] f = Join(DirGit, "0types.txt") -> MarkerBad
                   [] f = ChaD -> td
                   [] f = ChaA -> ta
                   [] f = ChaGit -> <<"S", "LF">>
                   [] f = TxtD -> <<"S", "LF">>
                   [] OTHER -> NoFile]
    /\ \E dr \in BOOLEAN : args = [base_path |-> Root, dry_run |-> dr]
    /\ FileIdle
    /\ TreeStart

NextTree ==
    \/ CollectRoot
    \/ CollectVisit
    \/ ReadTypes
    \/ UpdateSkip
    \/ UpdateCall
    \/ NewPathOpen
    \/ NewPathScan
    \/ NewPathTemp
    \/ NewPathCopy
    \/ NewPathPersist
    \/ NewPathPersistFail
    \/ NewPathReturn
    \/ UpdateReturn
    \/ NextRun

SpecTree == InitTree /\ [][NextTree]_vars

\* ------------------------------------------------------------------------
\* Notions of the specification in which the properties are stated.
\* ------------------------------------------------------------------------

\* The trigger line: index of the first line that begins with @Types:, @End
\* or *, 0 when no line does.
RECURSIVE TriggerFrom(_, _)
TriggerFrom(lines, i) ==
    IF i > Len(lines) THEN 0
    ELSE IF lines[i] # <<>> /\ lines[i][1] \in {"T", "E", "S"} THEN i
    ELSE TriggerFrom(lines, i + 1)

TriggerIndex(lines) == TriggerFrom(lines, 1)

IsHeader(line) == line # <<>> /\ line[1] = "T"

\* The lines with the one change at trigger line k: a header line replaced
\* by nt, nt inserted before any other trigger line.
ExpectedLines(lines, nt) ==
    LET k == TriggerIndex(lines)
    IN  IF IsHeader(lines[k])
        THEN [lines EXCEPT ![k] = nt]
        ELSE SubSeq(lines, 1, k - 1) \o <<nt>> \o SubSeq(lines, k, Len(lines))

\* A line sequence as it is written: every line followed by one "LF".
RECURSIVE AsWritten(_)
AsWritten(lines) ==
    IF lines = <<>> THEN <<>>
    ELSE lines[1] \o <<"LF">> \o AsWritten(Tail(lines))

\* The lines of the source of the running call, when the call started.
SourceLines == Lines(old[call.path])

RealNewPath == call.fn = "update_types_to_new_path" /\ ~call.dry_run

\* No update is needed: the first trigger line is a header line equal to
\* the new header text, or there is no trigger line.
NoUpdateNeeded ==
    LET k == TriggerIndex(SourceLines)
    IN  k = 0 \/ (IsHeader(SourceLines[k]) /\ SourceLines[k] = call.new_types)

\* C3: during a non-dry-run update_types_to_new_path the content at
\* destination_path is, in every state (the process may stop in any), the
\* complete old content or the complete new content, no other file changes,
\* and as long as the rename has not happened the file system is the one
\* the call started with.
C3_DestinationOldOrNew ==
    RealNewPath =>
      /\ \/ fs[call.new_path] = old[call.new_path]
         \/ /\ TriggerIndex(SourceLines) > 0
            /\ fs[call.new_path] =
                 AsWritten(ExpectedLines(SourceLines, call.new_types))
      /\ \A f \in AllFiles \ {call.new_path} : fs[f] = old[f]
      /\ fpc \in {"open", "scan", "temp", "copy", "panicked"} => fs = old

\* C3, witness: the temporary file holds a part of the new content (the
\* prefix is written, lines are still to be copied) and the destination
\* still holds its old content, which is not the new one.
C3_Witness ==
    /\ RealNewPath
    /\ fpc = "copy"
    /\ taken < Len(strings)
    /\ tmp # NoFile
    /\ call.new_path = call.path
    /\ fs[call.new_path] = old[call.new_path]
    /\ old[call.new_path] # AsWritten(ExpectedLines(SourceLines, call.new_types))

\* C5: under dry_run no file changes, no temporary file exists and nothing
\* is written to the output, in every state of the call, and the value
\* returned is the one the call returns without dry_run on the same input
\* (the flag of updated_prefix run with the buffer as its sink).
C5_DryRunFrame ==
    call.dry_run =>
      /\ fs = old
      /\ tmp = NoFile
      /\ out = <<>>
      /\ fpc = "returned" =>
           ret = updated_prefix(SourceLines, 1, call.new_types, TRUE, <<>>).updated

\* C5, witness: a dry run has returned true, on a file that the real run
\* would rewrite.
C5_Witness ==
    /\ call.dry_run
    /\ fpc = "returned"
    /\ ret = TRUE
    /\ call.fn = "update_types_to_new_path"

\* C6: when a non-dry-run update has returned true, the source has a
\* trigger line and the destination (destination_path of
\* update_types_to_new_path, the output of update_types_to_output) holds the
\* lines of the source as written, each with its line feed, with the one
\* change at the trigger line: a header line replaced by the new header
\* text, the new header text inserted before any other trigger line.
C6_OneChangeAtTrigger ==
    (~call.dry_run /\ fpc = "returned" /\ ret = TRUE) =>
      /\ TriggerIndex(SourceLines) > 0
      /\ call.fn = "update_types_to_new_path" =>
           fs[call.new_path] =
             AsWritten(ExpectedLines(SourceLines, call.new_types))
      /\ call.fn = "update_types_to_output" =>
           out = AsWritten(ExpectedLines(SourceLines, call.new_types))

\* C6, witness: a header line was replaced with lines before and after it
\* kept (scenario A of the specification: intro, old header, utterance).
C6_Witness ==
    /\ RealNewPath
    /\ fpc = "returned"
    /\ ret = TRUE
    /\ Len(SourceLines) = 3
    /\ TriggerIndex(SourceLines) = 2
    /\ IsHeader(SourceLines[2])
    /\ Lines(fs[call.new_path]) = [SourceLines EXCEPT ![2] = call.new_types]

\* C7: when updated_prefix has returned (the scan is over, nothing was
\* copied yet) on lines with trigger line k, exactly k lines were taken
\* from the iterator, with and without a sink, whatever was returned.
C7_ScanStopsAtTrigger ==
    (/\ call.fn = "update_types_to_new_path"
     /\ fpc \in {"temp", "return"}
     /\ tmp = NoFile
     /\ fs = old
     /\ TriggerIndex(strings) > 0) => taken = TriggerIndex(strings)

\* C7, witness: the scan has ended at a trigger line that is not the last
\* line, without a sink.
C7_Witness ==
    /\ call.fn = "update_types_to_new_path"
    /\ call.dry_run
    /\ fpc = "return"
    /\ TriggerIndex(strings) > 0
    /\ TriggerIndex(strings) < Len(strings)
    /\ taken = TriggerIndex(strings)

\* C8: when no update is needed, no state of the call has a changed or
\* created file, a temporary file or output, and the call returns false,
\* under dry_run and without.
C8_NoUpdateNoOutput ==
    NoUpdateNeeded =>
      /\ fs = old
      /\ tmp = NoFile
      /\ out = <<>>
      /\ fpc # "panicked"
      /\ fpc = "returned" => ret = FALSE

\* C8, witness: a real run has returned false on a file whose header is the
\* new header text already, the destination being a path with no file.
C8_Witness ==
    /\ RealNewPath
    /\ fpc = "returned"
    /\ ret = FALSE
    /\ TriggerIndex(SourceLines) > 0
    /\ call.new_path # call.path
    /\ fs[call.new_path] = NoFile

\* C9: get_types_fast returns what get_types_slurp returns, and
\* replace_types_fast what replace_types_slurp returns, on every file
\* content and every new header text.
C9_FastEqualsSlurp ==
    /\ (res.get_types_slurp.called /\ res.get_types_fast.called) =>
         res.get_types_fast.value = res.get_types_slurp.value
    /\ (res.replace_types_slurp.called /\ res.replace_types_fast.called) =>
         res.replace_types_fast.value = res.replace_types_slurp.value

\* The directories of the tree that the walk reaches: none under .git.
RECURSIVE Reached(_)
Reached(d) == d = Root \/ (d \in tree /\ FileName(d) # ".git" /\ Reached(Parent(d)))

HasMarker(d) == fs[Join(d, "0types.txt")] # NoFile

\* The nearest of d and its ancestors that holds a marker file, or None.
RECURSIVE Nearest(_)
Nearest(d) ==
    IF HasMarker(d) THEN d
    ELSE IF d = Root THEN None
    ELSE Nearest(Parent(d))

\* C1: whatever the order in which the entries of a directory are visited,
\* the map collect_chat_types returns maps every directory of the tree to
\* the nearest of itself and its ancestors that holds a marker file, and
\* to None when there is none.
C1_MapIsNearestMarker ==
    pc = "read_types" =>
      /\ DOMAIN types_map = {d \in tree : Reached(d)}
      /\ \A d \in DOMAIN types_map : types_map[d] = Nearest(d)

\* The CHAT files the second walk reaches, and the owner the map of the
\* running call gives each.
ChatFiles ==
    {f \in AllFiles : IsChat(f) /\ fs[f] # NoFile /\ Reached(Parent(f))}

Owner(f) == types_map[Parent(f)]

HeaderIndexes(lines) == {i \in 1..Len(lines) : IsHeader(lines[i])}

EndIndexes(lines) ==
    {i \in 1..Len(lines) : lines[i] # <<>> /\ lines[i][1] \in {"E", "S"}}

\* A non-dry-run call of update_types_in_place has run to its end.
RealRunDone == pc = "done" /\ ~args.dry_run

\* C2 as stated: after a non-dry-run every transcript with an owner O holds
\* exactly one line that begins with @Types:, that line is the header text
\* of O's marker, and it lies before every line that begins with @End or *.
C2_ExactlyOneHeader ==
    RealRunDone =>
      \A f \in ChatFiles :
        Owner(f) # None =>
          LET ls == Lines(fs[f])
          IN  /\ Cardinality(HeaderIndexes(ls)) = 1
              /\ \A i \in HeaderIndexes(ls) :
                   /\ ls[i] = types_info[Owner(f)]
                   /\ \A j \in EndIndexes(ls) : i < j

\* C2 as amended: after a non-dry-run that ran to its end, a transcript
\* with an owner O that held a trigger line holds a header line as its
\* first trigger line, which is the header text of O's marker, up to a
\* carriage return at its end; a transcript that held no trigger line is
\* as it was.
C2_FirstTriggerIsHeader ==
    RealRunDone =>
      \A f \in ChatFiles :
        Owner(f) # None =>
          LET before == hist[run][f]
              ls == Lines(fs[f])
              k == TriggerIndex(ls)
              nt == types_info[Owner(f)]
          IN  IF TriggerIndex(Lines(before)) = 0
              THEN fs[f] = before
              ELSE /\ k > 0
                   /\ IsHeader(ls[k])
                   /\ ls[k] \in {nt, StripCR(nt)}

\* C2, witness: b/d/t.cha held an utterance and no header, its owner is b,
\* and after the run it holds the header of b's marker before the
\* utterance.
C2_Witness ==
    /\ RealRunDone
    /\ hist[1][ChaD] = <<"S", "LF">>
    /\ Owner(ChaD) = DirB
    /\ fs[Join(DirB, "0types.txt")] = MarkerTx
    /\ fs[ChaD] = <<"T", "x", "LF", "S", "LF">>

\* C4: in the second of two non-dry-runs in a row every call of
\* update_types_to_new_path returns false, no file content changes and the
\* count returned is 0.
C4_SecondRunChangesNothing ==
    (run = 2 /\ ~args.dry_run) =>
      /\ fs = hist[2]
      /\ (pc = "update" /\ fpc = "returned") => ret = FALSE
      /\ num_updated = 0

\* A marker file that is empty or whose first line does not begin with
\* @Types:.
Malformed(b) == b = <<>> \/ b[1] # "T"

MarkedDirs == {d \in tree : Reached(d) /\ HasMarker(d)}

\* C10: no file changes before the marker file of every directory of the
\* Directory Marker Set was read and found well-formed; when a marker file
\* of the walked tree is malformed the run never gets to the second walk
\* and no file changes.
C10_MarkersReadBeforeUpdates ==
    /\ fs # hist[run] =>
         /\ pc \in {"walk", "update", "done"}
         /\ DOMAIN types_info = MarkedDirs
         /\ \A d \in MarkedDirs : IsHeader(types_info[d])
    /\ (\E d \in MarkedDirs : Malformed(fs[Join(d, "0types.txt")])) =>
         /\ fs = hist[1]
         /\ pc \in {"collect", "read_types", "panicked"}
         /\ fpc = "idle"

\* C10, witness: a non-dry-run has stopped at the malformed marker of a
\* while b/d/t.cha, owned by the well-formed marker of the root, lacks its
\* header and is as it was.
C10_Witness ==
    /\ pc = "panicked"
    /\ ~args.dry_run
    /\ fs[Join(DirA, "0types.txt")] = MarkerBad
    /\ fs[Join(Root, "0types.txt")] = MarkerT
    /\ types_map[DirD] = Root
    /\ fs[ChaD] = <<"S", "LF">>

=============================================================================
